---- MODULE Spec2Model ----
(***************************************************************************)
(* A model of vidar's syntax highlighter (package syntax: Syntax.Parse,    *)
(* Syntax.add, Syntax.runePos) and of its command stack (package           *)
(* commander: Commander.Push, Commander.Pop, Commander.bind, execute), and *)
(* of the editor's file reload (package editor: CodeEditor.load,           *)
(* CodeEditor.watch).                                                      *)
(*                                                                         *)
(* Byte offsets are 0-based as in Go; TLA+ sequences are 1-based, so byte  *)
(* i of a text is text[i + 1] and runeOffsets[i] is runeOffsets[i + 1].    *)
(***************************************************************************)
EXTENDS Integers, Sequences, FiniteSets, TLC

VARIABLES
    Theme,          \* Syntax.Theme
    fileSet,        \* Syntax.fileSet: the files of the set, each [base, size]
    layers,         \* Syntax.layers: Color -> layer
    runeOffsets,    \* Syntax.runeOffsets
    source,         \* the argument of the last Parse
    f,              \* the *ast.File the parser returned to the last Parse
    err,            \* the error the last Parse returned
    status,         \* "new" | "parsed" | "panicked" (the goroutine died in Parse)
    dropped,        \* history: the last Parse left out a layer the session had before it
    commands,       \* Commander.commands
    cmdStack,       \* Commander.cmdStack
    inputHandler,   \* Commander.inputHandler
    menu,           \* the entries of Commander.menuBar
    hooks,          \* the (command, hook) pairs HookedCommand.Bind accepted
    cstatus,        \* "ok" | "panicked" (Pop indexed an empty cmdStack)
    hist,           \* history: what each Push still on the stack replaced
    restored,       \* history: <<what the last Pop had to restore>>, or <<>>
    bindLog,        \* history: per bind level, the bind calls that built it, in order
    fileExists,     \* the file at CodeEditor.filepath is there
    fileText,       \* what the file holds
    watching,       \* e.watcher has a watch on the file
    events,         \* the Write events waiting in e.watcher.Events
    writes,         \* how often the file has been written
    editorText,     \* CodeEditor.Text()
    loading,        \* len(e.loading)
    calls,          \* the callbacks driver.Call queued for the UI thread
    pc,             \* where the UI thread and the watcher goroutine are
    parsing,        \* the threads inside the OnTextChanged handler
    elem,           \* the Commander as the element Execute hands to execute
    result          \* <<what execute returned to it and whether it warned>>, or <<>>

syntaxVars == <<Theme, fileSet, layers, runeOffsets, source, f, err, status, dropped>>
commanderVars == <<commands, cmdStack, inputHandler, menu, hooks, cstatus, hist, restored,
                   bindLog>>
editorVars == <<fileExists, fileText, watching, events, writes, editorText, loading,
                calls, pc, parsing>>
executeVars == <<elem, result>>
vars == <<Theme, fileSet, layers, runeOffsets, source, f, err, status, dropped,
          commands, cmdStack, inputHandler, menu, hooks, cstatus, hist, restored,
          bindLog, fileExists, fileText, watching, events, writes, editorText, loading,
          calls, pc, parsing, elem, result>>

\* ------------------------------------------------------------------ bounds

\* Source items (imports, comments, declarations) after the package clause.
MaxItems == 2
\* Depth of Commander.cmdStack.
MaxDepth == 3
\* Writes to the edited file.
MaxWrites == 2
\* Elements in the tree an executor runs over.
MaxElems == 3

\* ------------------------------------------------------------- sequences

RECURSIVE Concat(_)
Concat(ss) == IF ss = <<>> THEN <<>> ELSE Head(ss) \o Concat(Tail(ss))

RECURSIVE SeqsUpTo(_, _)
\* Every sequence over S of length at most n.
SeqsUpTo(S, n) ==
    IF n = 0 THEN {<<>>}
    ELSE LET shorter == SeqsUpTo(S, n - 1)
         IN  shorter \cup {Append(s, x) : s \in {t \in shorter : Len(t) = n - 1}, x \in S}

\* ------------------------------------------------------------------ UTF-8

\* utf8.RuneError, what the conversion []rune(source) yields for each byte
\* that starts no valid encoding.
RuneError == 65533

IsCont(b) == b >= 128 /\ b <= 191

\* The bytes a valid encoding has after lead byte b0, with the range its
\* second byte must lie in (unicode/utf8's accept ranges); need = 0: invalid.
LeadInfo(b0) ==
    IF b0 < 128 THEN [need |-> 1, lo |-> 0, hi |-> 0]
    ELSE IF b0 >= 194 /\ b0 <= 223 THEN [need |-> 2, lo |-> 128, hi |-> 191]
    ELSE IF b0 = 224 THEN [need |-> 3, lo |-> 160, hi |-> 191]
    ELSE IF b0 = 237 THEN [need |-> 3, lo |-> 128, hi |-> 159]
    ELSE IF b0 >= 225 /\ b0 <= 239 THEN [need |-> 3, lo |-> 128, hi |-> 191]
    ELSE IF b0 = 240 THEN [need |-> 4, lo |-> 144, hi |-> 191]
    ELSE IF b0 >= 241 /\ b0 <= 243 THEN [need |-> 4, lo |-> 128, hi |-> 191]
    ELSE IF b0 = 244 THEN [need |-> 4, lo |-> 128, hi |-> 143]
    ELSE [need |-> 0, lo |-> 0, hi |-> 0]

\* The rune decoded at byte i (0-based) of text and the bytes it consumed:
\* an invalid or truncated encoding decodes as RuneError, consuming one byte.
DecodeRune(text, i) ==
    LET b0 == text[i + 1]
        info == LeadInfo(b0)
        n == info.need
        bad == [r |-> RuneError, size |-> 1]
    IN  IF n = 0 \/ i + n > Len(text) THEN bad
        ELSE IF n = 1 THEN [r |-> b0, size |-> 1]
        ELSE IF text[i + 2] < info.lo \/ text[i + 2] > info.hi THEN bad
        ELSE IF n = 2 THEN [r |-> (b0 - 192) * 64 + (text[i + 2] - 128), size |-> 2]
        ELSE IF ~IsCont(text[i + 3]) THEN bad
        ELSE IF n = 3
             THEN [r |-> (b0 - 224) * 4096 + (text[i + 2] - 128) * 64 + (text[i + 3] - 128),
                   size |-> 3]
        ELSE IF ~IsCont(text[i + 4]) THEN bad
        ELSE [r |-> (b0 - 240) * 262144 + (text[i + 2] - 128) * 4096
                    + (text[i + 3] - 128) * 64 + (text[i + 4] - 128),
              size |-> 4]

RECURSIVE RunesFrom(_, _)
RunesFrom(text, i) ==
    IF i >= Len(text) THEN <<>>
    ELSE LET d == DecodeRune(text, i) IN <<d.r>> \o RunesFrom(text, i + d.size)

\* []rune(source)
Runes(text) == RunesFrom(text, 0)

\* utf8.RuneLen
RuneLen(r) ==
    IF r < 0 THEN -1
    ELSE IF r <= 127 THEN 1
    ELSE IF r <= 2047 THEN 2
    ELSE IF r >= 55296 /\ r <= 57343 THEN -1
    ELSE IF r <= 65535 THEN 3
    ELSE IF r <= 1114111 THEN 4
    ELSE -1

RECURSIVE ValidFrom(_, _)
ValidFrom(text, i) ==
    IF i >= Len(text) THEN TRUE
    ELSE LET info == LeadInfo(text[i + 1])
             d == DecodeRune(text, i)
         IN  info.need # 0 /\ d.size = info.need /\ ValidFrom(text, i + d.size)

\* utf8.ValidString
ValidUTF8(text) == ValidFrom(text, 0)

\* ------------------------------------------------------------ go/token

\* The base token.NewFileSet() gives the first file added to it.
FileBase == 1

\* token.NoPos
NoPos == 0

\* token.Pos.IsValid
IsValid(pos) == pos # NoPos

\* token.NewFileSet() followed by the parser's AddFile(filename, -1, len(src)).
NewFileSet(size) == <<[base |-> FileBase, size |-> size]>>

\* token.FileSet.Position(pos).Offset: the offset of pos in the file of the
\* set that holds it, and the zero Position's 0 when no file does.
PositionOffset(fset, pos) ==
    LET holding == {i \in 1..Len(fset) : fset[i].base <= pos /\ pos <= fset[i].base + fset[i].size}
    IN  IF pos = NoPos \/ holding = {} THEN 0
        ELSE LET i == CHOOSE i \in holding : TRUE IN pos - fset[i].base

\* ------------------------------------------------------------- the theme

\* A Color whose fields were never set (Go's zero value).
ZeroColor == [Foreground |-> "unset", Background |-> "unset"]

Paint(name) == [Foreground |-> name, Background |-> "clear"]

\* syntax.DefaultTheme: every category has a color of its own.
DefaultTheme ==
    [Colors |-> [Keyword |-> Paint("purple"), String |-> Paint("yellow"),
                 Comment |-> Paint("grey"), Ident |-> Paint("blue"),
                 Unresolved |-> Paint("red")]]

\* A theme that gives strings the color of keywords.
SharedTheme == [DefaultTheme EXCEPT !.Colors.String = Paint("purple")]

\* A theme built without a color for comments.
UnsetTheme == [DefaultTheme EXCEPT !.Colors.Comment = ZeroColor]

\* A theme that draws every category in one color.
OneColorTheme == [Colors |-> [cat \in DOMAIN DefaultTheme.Colors |-> Paint("white")]]

Themes == {DefaultTheme, SharedTheme, UnsetTheme, OneColorTheme}

\* ----------------------------------------------------------- the session

\* syntax.New(theme)
New(theme) == [Theme |-> theme, fileSet |-> <<>>, layers |-> <<>>, runeOffsets |-> <<>>]

\* &gxui.CodeSyntaxLayer{} after SetColor and SetBackgroundColor.
NewLayer(color) ==
    [color |-> color.Foreground, backgroundColor |-> color.Background, spans |-> <<>>]

\* gxui.CodeSyntaxLayer.Add(start, count): the layer records the span.
LayerAdd(layer, start, count) ==
    [layer EXCEPT !.spans = Append(@, [start |-> start, length |-> count])]

\* Syntax.runePos
runePos(s, bytePos) ==
    IF bytePos >= Len(s.runeOffsets) THEN -1
    ELSE bytePos + s.runeOffsets[bytePos + 1]

\* Syntax.add
add(s, color, pos, byteLength) ==
    IF byteLength = 0 THEN s
    ELSE LET found == color \in DOMAIN s.layers
             withLayer == IF found THEN s.layers ELSE s.layers @@ (color :> NewLayer(color))
             bytePos == PositionOffset(s.fileSet, pos)
         IN  IF bytePos >= Len(s.runeOffsets) THEN [s EXCEPT !.layers = withLayer]
             ELSE LET idx == runePos(s, bytePos)
                      end == runePos(s, bytePos + byteLength)
                  IN  [s EXCEPT !.layers =
                          [withLayer EXCEPT ![color] = LayerAdd(@, idx, end - idx)]]

\* Syntax.addNode
addNode(s, color, node) == add(s, color, node.Pos, node.End - node.Pos)

RECURSIVE addNodes(_, _, _)
\* for _, n := range nodes { s.addNode(color, n) }
addNodes(s, color, nodes) ==
    IF nodes = <<>> THEN s
    ELSE addNodes(addNode(s, color, Head(nodes)), color, Tail(nodes))

RECURSIVE addElems(_, _)
addElems(s, elems) ==
    IF elems = <<>> THEN s
    ELSE LET e == Head(elems)
         IN  addElems(add(s, s.Theme.Colors[e.cat], e.Pos, e.Len), Tail(elems))

\* Syntax.addDecl: one add per keyword, literal and declared identifier of
\* the declaration, in source order.
addDecl(s, decl) == addElems(s, decl)

RECURSIVE addDecls(_, _)
addDecls(s, decls) ==
    IF decls = <<>> THEN s ELSE addDecls(addDecl(s, Head(decls)), Tail(decls))

\* Syntax.addUnresolved: the identifier, in the color of unresolved names.
addUnresolved(s, ident) == addNode(s, s.Theme.Colors.Unresolved, ident)

RECURSIVE addAllUnresolved(_, _)
addAllUnresolved(s, idents) ==
    IF idents = <<>> THEN s
    ELSE addAllUnresolved(addUnresolved(s, Head(idents)), Tail(idents))

\* len("package")
PackageLen == 7

RECURSIVE OffsetsLoopWrongSign(_, _, _, _)
\* OffsetsLoop storing byteOffset where the code stores -byteOffset.
OffsetsLoopWrongSign(rs, runeIdx, byteOffset, table) ==
    IF runeIdx >= Len(rs) THEN [table |-> table, panicked |-> FALSE]
    ELSE LET byteIdx == runeIdx + byteOffset
             bytes == RuneLen(rs[runeIdx + 1])
             last == IF byteIdx + bytes > Len(table) THEN Len(table) ELSE byteIdx + bytes
             written == SubSeq(table, 1, byteIdx)
                        \o [j \in 1..(last - byteIdx) |-> byteOffset]
                        \o SubSeq(table, last + 1, Len(table))
         IN  IF byteIdx + bytes > Len(table) THEN [table |-> written, panicked |-> TRUE]
             ELSE OffsetsLoopWrongSign(rs, runeIdx + 1, byteOffset + bytes - 1, written)

RECURSIVE OffsetsLoop(_, _, _, _)
\* The loop of Parse over []rune(source), from rune runeIdx on. Writing
\* s.runeOffsets[i] for i >= len(source) panics (index out of range); the
\* entries written before that stay written.
OffsetsLoop(rs, runeIdx, byteOffset, table) ==
    IF runeIdx >= Len(rs) THEN [table |-> table, panicked |-> FALSE]
    ELSE LET byteIdx == runeIdx + byteOffset
             bytes == RuneLen(rs[runeIdx + 1])
             last == IF byteIdx + bytes > Len(table) THEN Len(table) ELSE byteIdx + bytes
             written == SubSeq(table, 1, byteIdx)
                        \o [j \in 1..(last - byteIdx) |-> -byteOffset]
                        \o SubSeq(table, last + 1, Len(table))
         IN  IF byteIdx + bytes > Len(table) THEN [table |-> written, panicked |-> TRUE]
             ELSE OffsetsLoop(rs, runeIdx + 1, byteOffset + bytes - 1, written)

\* make([]int, len(source)) and the loop that fills it.
BuildOffsets(text) == OffsetsLoop(Runes(text), 0, 0, [j \in 1..Len(text) |-> 0])

\* AddFile adding the comments before the import specs.
AddFileCommentsFirst(s, file) ==
    LET s1 == IF IsValid(file.Package)
              THEN add(s, s.Theme.Colors.Keyword, file.Package, PackageLen) ELSE s
        s2 == addNodes(s1, s.Theme.Colors.Comment, file.Comments)
        s3 == addNodes(s2, s.Theme.Colors.String, file.Imports)
        s4 == addDecls(s3, file.Decls)
    IN  addAllUnresolved(s4, file.Unresolved)

\* The part of Parse after parser.ParseFile returned file: everything the
\* file holds is added, the parser's error or not.
AddFile(s, file) ==
    LET s1 == IF IsValid(file.Package)
              THEN add(s, s.Theme.Colors.Keyword, file.Package, PackageLen) ELSE s
        s2 == addNodes(s1, s.Theme.Colors.String, file.Imports)
        s3 == addNodes(s2, s.Theme.Colors.Comment, file.Comments)
        s4 == addDecls(s3, file.Decls)
    IN  addAllUnresolved(s4, file.Unresolved)

\* ParseBody without s.layers = make(...): the layers of the last Parse stay.
ParseBodyKeepLayers(s, text, file) ==
    LET off == BuildOffsets(text)
        s0 == [s EXCEPT !.runeOffsets = off.table]
    IN  IF off.panicked THEN [s |-> s0, err |-> FALSE, panicked |-> TRUE]
        ELSE [s |-> AddFile([s0 EXCEPT !.fileSet = NewFileSet(Len(text))], file),
              err |-> file.err, panicked |-> FALSE]

\* ParseBody returning the parser's error before it adds anything.
ParseBodyStopOnError(s, text, file) ==
    LET off == BuildOffsets(text)
        s0 == [s EXCEPT !.runeOffsets = off.table]
        s1 == [s0 EXCEPT !.fileSet = NewFileSet(Len(text)), !.layers = <<>>]
    IN  IF off.panicked THEN [s |-> s0, err |-> FALSE, panicked |-> TRUE]
        ELSE [s |-> IF file.err THEN s1 ELSE AddFile(s1, file),
              err |-> file.err, panicked |-> FALSE]

\* Syntax.Parse(text), the parser returning (file, file.err): the session
\* after it, the error it returns, and whether it panicked on the way.
ParseBody(s, text, file) ==
    LET off == BuildOffsets(text)
        s0 == [s EXCEPT !.runeOffsets = off.table]
    IN  IF off.panicked THEN [s |-> s0, err |-> FALSE, panicked |-> TRUE]
        ELSE [s |-> AddFile([s0 EXCEPT !.fileSet = NewFileSet(Len(text)),
                                       !.layers = <<>>], file),
              err |-> file.err, panicked |-> FALSE]

\* ------------------------------------------- source texts and their files

\* "package a\n": the package clause every well-formed text below starts with.
Header == <<112, 97, 99, 107, 97, 103, 101, 32, 97, 10>>

\* What may follow the package clause. Each item is its bytes and what
\* go/parser makes of them, with offsets relative to the item's first byte:
\* nodes (import specs or comments, [off, len]), elems (the keywords,
\* literals and declared identifiers of a declaration, [cat, off, len]) and
\* unres (the identifiers the parser leaves unresolved). A tail ends the
\* text; bad: the parser reports an error for it.
Items ==
    [ \* import "<U+1D6D1>"\n : the path literal is 6 bytes, 3 runes
      Import |-> [bytes |-> <<105, 109, 112, 111, 114, 116, 32, 34, 240, 157, 155, 145, 34, 10>>,
                  kind |-> "import", nodes |-> <<[off |-> 7, len |-> 6]>>,
                  elems |-> <<>>, unres |-> <<>>, tail |-> FALSE, bad |-> FALSE],
      \* //<U+20AC>\n : the comment is 5 bytes, 3 runes
      Comment |-> [bytes |-> <<47, 47, 226, 130, 172, 10>>,
                   kind |-> "comment", nodes |-> <<[off |-> 0, len |-> 5]>>,
                   elems |-> <<>>, unres |-> <<>>, tail |-> FALSE, bad |-> FALSE],
      \* var <U+00FE> T = "<U+03A9>"\n : T is not declared in the file
      Var |-> [bytes |-> <<118, 97, 114, 32, 195, 190, 32, 84, 32, 61, 32, 34, 206, 169, 34, 10>>,
               kind |-> "decl", nodes |-> <<>>,
               elems |-> <<[cat |-> "Keyword", off |-> 0, len |-> 3],
                           [cat |-> "Ident", off |-> 4, len |-> 2],
                           [cat |-> "String", off |-> 11, len |-> 4]>>,
               unres |-> <<[off |-> 7, len |-> 1]>>, tail |-> FALSE, bad |-> FALSE],
      \* //\xff<EOF> : a comment holding a byte that is not UTF-8
      BadTail |-> [bytes |-> <<47, 47, 255>>,
                   kind |-> "comment", nodes |-> <<[off |-> 0, len |-> 3]>>,
                   elems |-> <<>>, unres |-> <<>>, tail |-> TRUE, bad |-> TRUE],
      \* func<EOF> : the parser makes up the name "_" (1 byte) at the end of the text
      FuncTail |-> [bytes |-> <<102, 117, 110, 99>>,
                    kind |-> "decl", nodes |-> <<>>,
                    elems |-> <<[cat |-> "Keyword", off |-> 0, len |-> 4],
                                [cat |-> "Ident", off |-> 4, len |-> 1]>>,
                    unres |-> <<>>, tail |-> TRUE, bad |-> TRUE],
      \* import<EOF> : an import spec whose path is the empty literal at the end
      ImportTail |-> [bytes |-> <<105, 109, 112, 111, 114, 116>>,
                      kind |-> "import", nodes |-> <<[off |-> 6, len |-> 0]>>,
                      elems |-> <<>>, unres |-> <<>>, tail |-> TRUE, bad |-> TRUE] ]

ItemNames == DOMAIN Items

\* The item sequences go/parser reads the way Items says: a tail comes last,
\* and imports come before every declaration.
WellFormed(names) ==
    /\ \A i \in 1..Len(names) : Items[names[i]].tail => i = Len(names)
    /\ \A i, j \in 1..Len(names) :
          (i < j /\ Items[names[i]].kind = "decl") => Items[names[j]].kind # "import"

Shapes == {names \in SeqsUpTo(ItemNames, MaxItems) : WellFormed(names)}

RECURSIVE ShapeBytes(_)
ShapeBytes(names) ==
    IF names = <<>> THEN <<>> ELSE Items[Head(names)].bytes \o ShapeBytes(Tail(names))

\* The offset in the text of item i of names.
ItemStart(names, i) == Len(Header) + Len(ShapeBytes(SubSeq(names, 1, i - 1)))

\* Item i's nodes as ast.Nodes: Pos() and End() are token.Pos values.
ItemNodes(names, i, field) ==
    LET at == FileBase + ItemStart(names, i)
        ns == Items[names[i]][field]
    IN  [k \in 1..Len(ns) |-> [Pos |-> at + ns[k].off, End |-> at + ns[k].off + ns[k].len]]

ItemElems(names, i) ==
    LET at == FileBase + ItemStart(names, i)
        es == Items[names[i]].elems
    IN  [k \in 1..Len(es) |-> [cat |-> es[k].cat, Pos |-> at + es[k].off, Len |-> es[k].len]]

RECURSIVE Gather(_, _, _, _)
\* The nodes of the items of one kind, in source order.
Gather(names, i, kind, field) ==
    IF i > Len(names) THEN <<>>
    ELSE (IF Items[names[i]].kind = kind THEN ItemNodes(names, i, field) ELSE <<>>)
         \o Gather(names, i + 1, kind, field)

RECURSIVE GatherUnresolved(_, _)
GatherUnresolved(names, i) ==
    IF i > Len(names) THEN <<>>
    ELSE ItemNodes(names, i, "unres") \o GatherUnresolved(names, i + 1)

RECURSIVE GatherDecls(_, _)
GatherDecls(names, i) ==
    IF i > Len(names) THEN <<>>
    ELSE (IF Items[names[i]].kind = "decl" THEN <<ItemElems(names, i)>> ELSE <<>>)
         \o GatherDecls(names, i + 1)

\* The *ast.File parser.ParseFile returns when the package clause does not
\* parse: nothing but an empty name and scope, with the error.
EmptyFile ==
    [Package |-> NoPos, Imports |-> <<>>, Comments |-> <<>>, Decls |-> <<>>,
     Unresolved |-> <<>>, err |-> TRUE]

\* A text and the file parser.ParseFile returns for it.
ShapeSource(names, dropNewline) ==
    LET bytes == Header \o ShapeBytes(names)
    IN  [text |-> IF dropNewline THEN SubSeq(bytes, 1, Len(bytes) - 1) ELSE bytes,
         file |-> [Package |-> FileBase,
                   Imports |-> Gather(names, 1, "import", "nodes"),
                   Comments |-> Gather(names, 1, "comment", "nodes"),
                   Decls |-> GatherDecls(names, 1),
                   Unresolved |-> GatherUnresolved(names, 1),
                   err |-> \E i \in 1..Len(names) : Items[names[i]].bad]]

\* The text of TestLayers_Unicode:
\*   "\npackage foo\n\nfunc <U+00B5>() string {\n\tvar <U+00FE> = \"<U+03A9><U+00F0>\"\n\treturn <U+00FE>\n}\n"
TestText ==
    <<10, 112, 97, 99, 107, 97, 103, 101, 32, 102, 111, 111, 10, 10,
      102, 117, 110, 99, 32, 194, 181, 40, 41, 32, 115, 116, 114, 105, 110, 103, 32, 123, 10,
      9, 118, 97, 114, 32, 195, 190, 32, 61, 32, 34, 206, 169, 195, 176, 34, 10,
      9, 114, 101, 116, 117, 114, 110, 32, 195, 190, 10, 125, 10>>

TestSource ==
    [text |-> TestText,
     file |-> [Package |-> FileBase + 1, Imports |-> <<>>, Comments |-> <<>>,
               Decls |-> << <<[cat |-> "Keyword", Pos |-> FileBase + 14, Len |-> 4],
                              [cat |-> "Ident", Pos |-> FileBase + 19, Len |-> 2],
                              [cat |-> "Keyword", Pos |-> FileBase + 34, Len |-> 3],
                              [cat |-> "Ident", Pos |-> FileBase + 38, Len |-> 2],
                              [cat |-> "String", Pos |-> FileBase + 43, Len |-> 6],
                              [cat |-> "Keyword", Pos |-> FileBase + 51, Len |-> 6]>> >>,
               Unresolved |-> <<[Pos |-> FileBase + 24, End |-> FileBase + 30]>>,
               err |-> FALSE]]

\* Texts whose package clause does not parse: the empty text, "x\n", and the
\* single byte 0xff.
BrokenSources == {[text |-> t, file |-> EmptyFile] : t \in {<<>>, <<120, 10>>, <<255>>}}

\* A text ending in a newline may also come without it: the parser inserts
\* the semicolon at the end of the text and returns the same nodes.
Sources ==
    {ShapeSource(names, FALSE) : names \in Shapes}
    \cup {ShapeSource(names, TRUE) :
            names \in {ns \in Shapes : ns = <<>> \/ ~Items[ns[Len(ns)]].tail}}
    \cup {TestSource} \cup BrokenSources

\* -------------------------------------------------------------- commander

\* gxui.KeyboardEvent values.
CtrlS == [Key |-> "KeyS", Modifier |-> "ModControl"]
CtrlO == [Key |-> "KeyO", Modifier |-> "ModControl"]
\* A binding without a key: the command is reachable from the menu only.
NoKey == [Key |-> "KeyUnknown", Modifier |-> "ModNone"]

\* The commands callers bind, by name. A command is [name, clone]: clone
\* counts the Clone() calls that led from the caller's command to it.
CommandNames == {"save", "open", "about"}

Command(name) == [name |-> name, clone |-> 0]

\* Whether the command implements CloneableCommand, HookedCommand.
Cloneable(cmd) == cmd.name = "save"
Hooked(cmd) == cmd.name \in {"save", "about"}

\* CloneableCommand.Clone()
Clone(cmd) == [cmd EXCEPT !.clone = @ + 1]

\* settings.Bindings(name): save and open share ctrl-s.
Bindings(name) ==
    CASE name = "save" -> <<CtrlS>>
      [] name = "open" -> <<CtrlO, CtrlS>>
      [] OTHER -> <<NoKey>>

\* The bind.Bindable values passed to Push: a command, a hook on a command
\* of the given name, or an input handler.
Cmd(name) == [kind |-> "command", command |-> Command(name)]
Hook(name, on) == [kind |-> "hook", name |-> name, commandName |-> on]
Handler(name) == [kind |-> "input", name |-> name]

\* The argument lists of Push.
PushArgs ==
    { <<>>,
      <<Cmd("save")>>,
      <<Cmd("open"), Handler("vi")>>,
      <<Cmd("about"), Cmd("save")>>,
      <<Handler("emacs")>>,
      <<Hook("onsave", "save"), Cmd("save")>>,
      <<Cmd("about"), Hook("onopen", "open"), Hook("onabout", "about")>> }

\* Commander.bindIdx, 0-based as in the code.
bindIdx(cmds, binding) ==
    IF binding.Key = "KeyUnknown" THEN -1
    ELSE LET found == {i \in 1..Len(cmds) : cmds[i].binding = binding}
         IN  IF found = {} THEN -1
             ELSE (CHOOSE i \in found : \A j \in found : i <= j) - 1

\* Commander.mapBinding
mapBinding(cmds, command, binding) ==
    Append(cmds, [binding |-> binding, command |-> command])

RECURSIVE bindKeepOlder(_, _, _)
\* bind without the removal of the mapping that holds the key.
bindKeepOlder(cmds, command, bindings) ==
    IF bindings = <<>> THEN cmds
    ELSE bindKeepOlder(mapBinding(cmds, command, Head(bindings)), command, Tail(bindings))

RECURSIVE bind(_, _, _)
\* Commander.bind, on c.commands
bind(cmds, command, bindings) ==
    IF bindings = <<>> THEN cmds
    ELSE LET i == bindIdx(cmds, Head(bindings))
             kept == IF i >= 0
                     THEN SubSeq(cmds, 1, i) \o SubSeq(cmds, i + 2, Len(cmds))
                     ELSE cmds
         IN  bind(mapBinding(kept, command, Head(bindings)), command, Tail(bindings))

RECURSIVE UniqueCommands(_, _)
\* The commands of the mappings, each once, in the order of first use.
UniqueCommands(old, used) ==
    IF old = <<>> THEN <<>>
    ELSE IF Head(old).command \in used THEN UniqueCommands(Tail(old), used)
    ELSE <<Head(old).command>> \o UniqueCommands(Tail(old), used \cup {Head(old).command})

\* archiveMap storing c.commands after it cleared them.
archiveMapAfterClear(c) ==
    [c |-> [c EXCEPT !.commands = <<>>, !.cmdStack = Append(@, <<>>)],
     cmds |-> UniqueCommands(c.commands, {})]

\* Commander.archiveMap: the commander after it, and the commands returned.
archiveMap(c) ==
    [c |-> [c EXCEPT !.commands = <<>>, !.cmdStack = Append(@, c.commands)],
     cmds |-> UniqueCommands(c.commands, {})]

RECURSIVE RebindOld(_, _)
\* The first loop of Push: each archived command, cloned if it can be, is
\* bound to the keys the settings give its name.
RebindOld(cmds, old) ==
    IF old = <<>> THEN cmds
    ELSE LET cmd == IF Cloneable(Head(old)) THEN Clone(Head(old)) ELSE Head(old)
         IN  RebindOld(bind(cmds, cmd, Bindings(cmd.name)), Tail(old))

RECURSIVE BindAll(_, _)
\* The second loop of Push, over the bindables: hooks are set aside (a
\* CommandHook is matched before a Command), commands are bound, an input
\* handler replaces c.inputHandler.
BindAll(c, bindables) ==
    IF bindables = <<>> THEN c
    ELSE LET b == Head(bindables)
             next == CASE b.kind = "command" ->
                              [c EXCEPT !.commands = bind(@, b.command, Bindings(b.command.name))]
                       [] b.kind = "input" -> [c EXCEPT !.inputHandler = b.name]
                       [] OTHER -> c
         IN  BindAll(next, Tail(bindables))

\* A nil bind.Command.
NilCommand == [name |-> "nil", clone |-> 0]

\* Commander.command: the first command mapped under the name, or nil.
command(cmds, name) ==
    LET found == {i \in 1..Len(cmds) : cmds[i].command.name = name}
    IN  IF found = {} THEN NilCommand
        ELSE cmds[CHOOSE i \in found : \A j \in found : i <= j].command

\* The third loop of Push: the (command, hook) pairs HookedCommand.Bind is
\* called with.
NewHooks(cmds, bindables) ==
    {[command |-> command(cmds, b.commandName), hook |-> b.name] :
        b \in {bindables[i] : i \in {j \in 1..Len(bindables) :
                   /\ bindables[j].kind = "hook"
                   /\ command(cmds, bindables[j].commandName) # NilCommand
                   /\ Hooked(command(cmds, bindables[j].commandName))}}}

\* Commander.Push, on the fields of c.
PushBody(c, bindables) ==
    LET archived == archiveMap(c)
        rebound == [archived.c EXCEPT !.commands = RebindOld(@, archived.cmds)]
    IN  BindAll(rebound, bindables)

\* Commander.Binding: the command mapped to the event, or nil.
Binding(cmds, binding) ==
    LET i == bindIdx(cmds, binding)
    IN  IF i < 0 THEN NilCommand ELSE cmds[i + 1].command

\* The calls c.bind(command, binding) of one Push, in the order it makes
\* them: for each archived command (cloned if it can be) and then for each
\* command among the bindables, one per key the settings give.
BindCalls(old, bindables) ==
    LET rebound == [k \in 1..Len(old) |->
                       IF Cloneable(old[k]) THEN Clone(old[k]) ELSE old[k]]
        given == SelectSeq(bindables, LAMBDA b : b.kind = "command")
        all == rebound \o [k \in 1..Len(given) |-> given[k].command]
    IN  Concat([k \in 1..Len(all) |->
                   [j \in 1..Len(Bindings(all[k].name)) |->
                       [command |-> all[k], binding |-> Bindings(all[k].name)[j]]]])

\* Commander.Pop, on the fields of c; the stack is not empty.
PopBody(c) ==
    LET newLen == Len(c.cmdStack) - 1
    IN  [c EXCEPT !.commands = c.cmdStack[newLen + 1],
                  !.cmdStack = SubSeq(c.cmdStack, 1, newLen)]

RECURSIVE MenuEntries(_, _)
MenuEntries(cmds, seen) ==
    IF cmds = <<>> THEN <<>>
    ELSE IF Head(cmds).command \in seen THEN MenuEntries(Tail(cmds), seen)
    ELSE LET cmd == Head(cmds).command
             mine == SelectSeq(cmds, LAMBDA m : m.command = cmd)
         IN  <<[command |-> cmd, keys |-> [k \in 1..Len(mine) |-> mine[k].binding]]>>
             \o MenuEntries(Tail(cmds), seen \cup {cmd})

\* c.menuBar.Clear() followed by Commander.mapMenu: one entry per command,
\* in the order of its first mapping, with all its keys.
mapMenu(cmds) == MenuEntries(cmds, {})

RECURSIVE StackCommands(_)
StackCommands(stack) ==
    IF stack = <<>> THEN {}
    ELSE {Head(stack)[i].command : i \in 1..Len(Head(stack))} \cup StackCommands(Tail(stack))

\* The commands some mapping still refers to, and the callers' own.
Live(c) ==
    {c.commands[i].command : i \in 1..Len(c.commands)}
    \cup StackCommands(c.cmdStack)
    \cup {Command(n) : n \in CommandNames}

\* ------------------------------------------------------------ the machines

SyntaxInit ==
    /\ Theme \in Themes
    /\ fileSet = <<>>
    /\ layers = <<>>
    /\ runeOffsets = <<>>
    /\ source = <<>>
    /\ f = EmptyFile
    /\ err = FALSE
    /\ status = "new"
    /\ dropped = FALSE

\* The session as the operators above take it.
Session == [Theme |-> Theme, fileSet |-> fileSet, layers |-> layers,
            runeOffsets |-> runeOffsets]

\* s.Parse(src.text). A panic ends the program: nothing runs after it.
Parse(src) ==
    /\ status # "panicked"
    /\ \E r \in {ParseBody(Session, src.text, src.file)} :
           /\ fileSet' = r.s.fileSet
           /\ layers' = r.s.layers
           /\ runeOffsets' = r.s.runeOffsets
           /\ err' = r.err
           /\ status' = IF r.panicked THEN "panicked" ELSE "parsed"
           /\ dropped' = (DOMAIN layers \ DOMAIN r.s.layers # {})
    /\ source' = src.text
    /\ f' = src.file
    /\ UNCHANGED <<Theme, commanderVars, editorVars, executeVars>>

CommanderInit ==
    /\ commands = <<>>
    /\ cmdStack = <<>>
    /\ inputHandler = "none"
    /\ menu = <<>>
    /\ hooks = {}
    /\ cstatus = "ok"
    /\ hist = <<>>
    /\ restored = <<>>
    /\ bindLog = << <<>> >>

\* The commander as the operators above take it.
Commander == [commands |-> commands, cmdStack |-> cmdStack, inputHandler |-> inputHandler]

\* c.Push(bindables...)
Push(bindables) ==
    /\ cstatus = "ok"
    /\ Len(cmdStack) < MaxDepth
    /\ \E c \in {PushBody(Commander, bindables)} :
           /\ commands' = c.commands
           /\ cmdStack' = c.cmdStack
           /\ inputHandler' = c.inputHandler
           /\ menu' = mapMenu(c.commands)
           /\ hooks' = hooks \cup NewHooks(c.commands, bindables)
    /\ hist' = Append(hist, [commands |-> commands, depth |-> Len(cmdStack),
                             inputHandler |-> inputHandler])
    /\ restored' = <<>>
    /\ bindLog' = Append(bindLog, BindCalls(UniqueCommands(commands, {}), bindables))
    /\ UNCHANGED <<cstatus, syntaxVars, editorVars, executeVars>>

\* c.Pop(). On an empty stack c.cmdStack[-1] panics; the deferred mapMenu
\* still runs.
Pop ==
    /\ cstatus = "ok"
    /\ IF cmdStack = <<>>
       THEN /\ cstatus' = "panicked"
            /\ menu' = mapMenu(commands)
            /\ restored' = <<>>
            /\ UNCHANGED <<commands, cmdStack, inputHandler, hooks, hist, bindLog>>
       ELSE /\ \E c \in {PopBody(Commander)} :
                   /\ commands' = c.commands
                   /\ cmdStack' = c.cmdStack
                   /\ inputHandler' = c.inputHandler
                   /\ menu' = mapMenu(c.commands)
                   \* the clones only the popped mappings referred to are gone
                   /\ hooks' = {h \in hooks : h.command \in Live(c)}
            /\ restored' = <<hist[Len(hist)]>>
            /\ hist' = SubSeq(hist, 1, Len(hist) - 1)
            /\ bindLog' = SubSeq(bindLog, 1, Len(bindLog) - 1)
            /\ UNCHANGED cstatus
    /\ UNCHANGED <<syntaxVars, editorVars, executeVars>>

\* The editor's threads: the UI thread, which runs CodeEditor.Init and the
\* callbacks of driver.Call, and the goroutine of CodeEditor.watch.
Threads == {"ui", "watch"}

\* What the file may hold.
FileTexts == {"a", "b"}

At(t, at) == pc[t].at = at

Goto(t, at) == pc' = [pc EXCEPT ![t].at = at]

\* CodeEditor.Init and open() for the path of a file: the handler is
\* registered, the watcher goroutine is started and the UI thread calls
\* load(). The file may be gone before either thread looks at it.
EditorInit ==
    /\ fileExists = TRUE
    /\ fileText = "a"
    /\ watching = FALSE
    /\ events = 0
    /\ writes = 0
    /\ editorText = ""
    /\ loading = 0
    /\ calls = <<>>
    /\ pc = [t \in Threads |-> [at |-> IF t = "ui" THEN "load" ELSE "start",
                                b |-> "", via |-> "none"]]
    /\ parsing = {}

\* Another program writes the file; a watch on it reports the write.
FileWrite(b) ==
    /\ fileExists
    /\ writes < MaxWrites
    /\ writes' = writes + 1
    /\ fileText' = b
    /\ events' = IF watching THEN events + 1 ELSE events
    /\ UNCHANGED <<fileExists, watching, editorText, loading, calls, pc, parsing>>
    /\ UNCHANGED <<syntaxVars, commanderVars, executeVars>>

\* Another program removes the file; the watch on it goes with it, the
\* events it reported stay queued.
FileRemove ==
    /\ fileExists
    /\ fileExists' = FALSE
    /\ watching' = FALSE
    /\ UNCHANGED <<fileText, events, writes, editorText, loading, calls, pc, parsing>>
    /\ UNCHANGED <<syntaxVars, commanderVars, executeVars>>

\* watch() up to inotifyWait: e.watcher.Add(e.filepath). Without the file
\* the goroutine goes into waitForFileCreate, whose inotifyWait returns
\* only on a watcher error.
watchAdd ==
    /\ At("watch", "start")
    /\ IF fileExists
       THEN watching' = TRUE /\ Goto("watch", "waiting")
       ELSE watching' = FALSE /\ Goto("watch", "waitForFileCreate")
    /\ UNCHANGED <<fileExists, fileText, events, writes, editorText, loading, calls, parsing>>
    /\ UNCHANGED <<syntaxVars, commanderVars, executeVars>>

\* inotifyWait receives a Write event and calls e.load().
inotifyWait ==
    /\ At("watch", "waiting")
    /\ events > 0
    /\ events' = events - 1
    /\ Goto("watch", "load")
    /\ UNCHANGED <<fileExists, fileText, watching, writes, editorText, loading, calls, parsing>>
    /\ UNCHANGED <<syntaxVars, commanderVars, executeVars>>

\* load(): e.loading <- true. The channel holds 5, more than there are
\* threads, so the send does not block.
loadEnter(t) ==
    /\ At(t, "load")
    /\ loading' = loading + 1
    /\ Goto(t, "open")
    /\ UNCHANGED <<fileExists, fileText, watching, events, writes, editorText, calls, parsing>>
    /\ UNCHANGED <<syntaxVars, commanderVars, executeVars>>

\* load(): os.Open, and for a file that is there Stat and ReadAll.
loadOpen(t) ==
    /\ At(t, "open")
    /\ pc' = IF fileExists
             THEN [pc EXCEPT ![t].at = "read", ![t].b = fileText]
             ELSE [pc EXCEPT ![t].at = "missing"]
    /\ UNCHANGED <<fileExists, fileText, watching, events, writes, editorText, loading,
                   calls, parsing>>
    /\ UNCHANGED <<syntaxVars, commanderVars, executeVars>>

\* SetText on thread t: the text is replaced and the OnTextChanged handler
\* starts on the same thread.
SetText(t, b, via) ==
    /\ editorText' = b
    /\ parsing' = parsing \cup {t}
    /\ pc' = [pc EXCEPT ![t].at = "handler", ![t].via = via]

\* load(), os.IsNotExist(err): e.SetText("") in load() itself.
loadMissing(t) ==
    /\ At(t, "missing")
    /\ SetText(t, "", "load")
    /\ UNCHANGED <<fileExists, fileText, watching, events, writes, loading, calls>>
    /\ UNCHANGED <<syntaxVars, commanderVars, executeVars>>

\* load(): e.driver.Call(func() {...}) queues the callback with the bytes
\* read and returns.
loadCall(t) ==
    /\ At(t, "read")
    /\ calls' = Append(calls, pc[t].b)
    /\ Goto(t, "leave")
    /\ UNCHANGED <<fileExists, fileText, watching, events, writes, editorText, loading,
                   parsing>>
    /\ UNCHANGED <<syntaxVars, commanderVars, executeVars>>

\* The deferred <-e.loading; load() returns to its caller.
loadLeave(t) ==
    /\ At(t, "leave")
    /\ loading' = loading - 1
    /\ Goto(t, IF t = "ui" THEN "idle" ELSE "waiting")
    /\ UNCHANGED <<fileExists, fileText, watching, events, writes, editorText, calls, parsing>>
    /\ UNCHANGED <<syntaxVars, commanderVars, executeVars>>

\* The UI thread runs the next callback of driver.Call.
driverCall ==
    /\ At("ui", "idle")
    /\ calls # <<>>
    /\ calls' = Tail(calls)
    /\ IF loading > 1 \/ editorText = Head(calls)
       THEN UNCHANGED <<editorText, parsing, pc>>
       ELSE SetText("ui", Head(calls), "Call")
    /\ UNCHANGED <<fileExists, fileText, watching, events, writes, loading>>
    /\ UNCHANGED <<syntaxVars, commanderVars, executeVars>>

\* The OnTextChanged handler returns: syntax.Layers has parsed the text and
\* SetSyntaxLayers has replaced the layers. SetText returns with it, to
\* load() or to the end of the callback.
OnTextChanged(t) ==
    /\ At(t, "handler")
    /\ parsing' = parsing \ {t}
    /\ Goto(t, IF pc[t].via = "load" THEN "leave" ELSE "idle")
    /\ UNCHANGED <<fileExists, fileText, watching, events, writes, editorText, loading, calls>>
    /\ UNCHANGED <<syntaxVars, commanderVars, executeVars>>

EditorNext ==
    \/ \E b \in FileTexts : FileWrite(b)
    \/ FileRemove
    \/ watchAdd
    \/ inotifyWait
    \/ driverCall
    \/ \E t \in Threads :
          loadEnter(t) \/ loadOpen(t) \/ loadMissing(t) \/ loadCall(t)
          \/ loadLeave(t) \/ OnTextChanged(t)

\* What executor.Exec may return for an element.
ExecResults == [executed : BOOLEAN, consume : BOOLEAN]

\* An element is [kind, exec, kids]: whether it is an Elementer, a
\* gxui.Parent or neither ("leaf"), what executor.Exec returns for it, and
\* its Elements() or Children(). Only an Elementer or a Parent has any.
Kinds(kids) == IF kids = <<>> THEN {"leaf", "Parent"} ELSE {"Elementer", "Parent"}

RECURSIVE ElemsOf(_), ElemLists(_)
\* The element trees of n elements.
ElemsOf(n) ==
    UNION {{[kind |-> k, exec |-> r, kids |-> kids] : k \in Kinds(kids), r \in ExecResults} :
              kids \in ElemLists(n - 1)}

\* The lists of element trees of n elements in all.
ElemLists(n) ==
    IF n = 0 THEN {<<>>}
    ELSE UNION {{<<first>> \o rest : first \in ElemsOf(k), rest \in ElemLists(n - k)} :
                   k \in 1..n}

\* The Commander as an element: a gxui.Parent, with the controls below it.
Elems == {e \in UNION {ElemsOf(n) : n \in 1..MaxElems} : e.kind # "leaf"}

RECURSIVE execute(_), executeEach(_, _)
\* execute(executor, el): what it returns.
execute(el) ==
    IF el.exec.consume THEN el.exec
    ELSE IF el.kind \in {"Elementer", "Parent"} THEN executeEach(el.kids, el.exec.executed)
    ELSE [executed |-> FALSE, consume |-> FALSE]

\* The loops of execute over src.Elements() and src.Children().
executeEach(kids, executed) ==
    IF kids = <<>> THEN [executed |-> executed, consume |-> FALSE]
    ELSE LET child == execute(Head(kids))
         IN  IF child.consume
             THEN [executed |-> executed \/ child.executed, consume |-> TRUE]
             ELSE executeEach(Tail(kids), executed \/ child.executed)

ExecuteInit ==
    /\ elem = [kind |-> "Parent", exec |-> [executed |-> FALSE, consume |-> FALSE],
               kids |-> <<>>]
    /\ result = <<>>

\* c.Execute(e), the executor e answering each element as its exec says.
Execute ==
    /\ \E r \in {execute(elem)} :
          result' = <<[executed |-> r.executed, consume |-> r.consume,
                       warned |-> ~r.executed]>>
    /\ UNCHANGED <<elem, syntaxVars, commanderVars, editorVars>>

ExecuteNext == Execute

Init == SyntaxInit /\ CommanderInit /\ EditorInit /\ ExecuteInit

SyntaxNext == \E src \in Sources : Parse(src)

SyntaxSpec == Init /\ [][SyntaxNext]_vars

CommanderNext == (\E bindables \in PushArgs : Push(bindables)) \/ Pop

\* The commander beside a session that is never used: one theme is enough.
DefaultInit == Init /\ Theme = DefaultTheme

CommanderSpec == DefaultInit /\ [][CommanderNext]_vars

\* The editor beside a session and a commander that are never used.
EditorSpec == DefaultInit /\ [][EditorNext]_vars

\* Execute over every element tree and executor within the bound, beside a
\* session and an editor that are never used.
ElemsInit ==
    /\ SyntaxInit /\ Theme = DefaultTheme
    /\ CommanderInit
    /\ EditorInit
    /\ elem \in Elems
    /\ result = <<>>

ExecuteSpec == ElemsInit /\ [][ExecuteNext]_vars

Next == SyntaxNext \/ CommanderNext \/ EditorNext \/ ExecuteNext

Spec == Init /\ [][Next]_vars

\* ------------------------------------------- what the highlighter should do
\* Reference definitions for the properties below: they count runes in the
\* text itself and read the nodes off the parser's file, without the offset
\* table.

\* The runes of valid UTF-8 text that start at a byte in [a, b).
RuneStarts(text, a, b) == Cardinality({i \in a..(b - 1) : ~IsCont(text[i + 1])})

NodeTuples(cat, nodes) ==
    [k \in 1..Len(nodes) |->
        [cat |-> cat, b |-> nodes[k].Pos - FileBase, L |-> nodes[k].End - nodes[k].Pos]]

ElemTuples(elems) ==
    [k \in 1..Len(elems) |-> [cat |-> elems[k].cat, b |-> elems[k].Pos - FileBase, L |-> elems[k].Len]]

\* Every node of the file with its category, byte offset and byte length:
\* the package keyword, the import specs, the comments, the declarations'
\* elements and the unresolved identifiers.
FileTuples(file) ==
    (IF IsValid(file.Package)
     THEN <<[cat |-> "Keyword", b |-> file.Package - FileBase, L |-> PackageLen]>> ELSE <<>>)
    \o NodeTuples("String", file.Imports)
    \o NodeTuples("Comment", file.Comments)
    \o ElemTuples(Concat(file.Decls))
    \o NodeTuples("Unresolved", file.Unresolved)

\* The nodes of the last file that are to be drawn in color c: those of
\* positive length that start inside the text.
Contributing(c) ==
    SelectSeq(FileTuples(f),
              LAMBDA t : Theme.Colors[t.cat] = c /\ t.L > 0 /\ t.b < Len(source))

ThemeColors == {Theme.Colors[cat] : cat \in DOMAIN Theme.Colors}

SpansOf(c) == IF c \in DOMAIN layers THEN layers[c].spans ELSE <<>>

\* The nodes of the file by the phase of the traversal that visits them.
Phases(file) ==
    << IF IsValid(file.Package)
       THEN <<[cat |-> "Keyword", b |-> file.Package - FileBase, L |-> PackageLen]>> ELSE <<>>,
       NodeTuples("String", file.Imports),
       NodeTuples("Comment", file.Comments),
       ElemTuples(Concat(file.Decls)),
       NodeTuples("Unresolved", file.Unresolved) >>

\* The rune offsets at which the nodes of phase n that are drawn in color c
\* start, in the order the parser lists them.
PhaseStarts(c, n) ==
    LET ts == SelectSeq(Phases(f)[n],
                        LAMBDA t : Theme.Colors[t.cat] = c /\ t.L > 0 /\ t.b < Len(source))
    IN  [k \in 1..Len(ts) |-> RuneStarts(source, 0, ts[k].b)]

\* The keyword color is the color of no other category.
KeywordColorApart ==
    \A cat \in DOMAIN Theme.Colors \ {"Keyword"} : Theme.Colors[cat] # Theme.Colors.Keyword

\* --------------------------------------------------------------- properties

\* C1 as stated: after Parse of valid UTF-8 text, runePos(b) is, for every
\* byte offset b of the text, the index of the rune that starts at or
\* contains byte b.
C1_RunePosOfEveryByte ==
    (status = "parsed" /\ ValidUTF8(source)) =>
        \A b \in 0..(Len(source) - 1) :
            runePos(Session, b) = RuneStarts(source, 0, b + 1) - 1

\* C1 (amended): after Parse of valid UTF-8 text, runePos(b) is the index of
\* the rune starting at b for every byte offset b at which a rune starts;
\* for ASCII-only text runePos(b) = b for every b.
C1_RunePosAtRuneStarts ==
    (status = "parsed" /\ ValidUTF8(source)) =>
        /\ \A b \in 0..(Len(source) - 1) :
              ~IsCont(source[b + 1]) => runePos(Session, b) = RuneStarts(source, 0, b)
        /\ (\A i \in 1..Len(source) : source[i] < 128) =>
              \A b \in 0..(Len(source) - 1) : runePos(Session, b) = b

\* A parsed text in which a rune starts after a multi-byte rune.
C1_Witness ==
    /\ status = "parsed"
    /\ \E b \in 0..(Len(source) - 1) :
          ~IsCont(source[b + 1]) /\ RuneStarts(source, 0, b) < b /\ runePos(Session, b) < b

\* C2 as stated: every node of positive byte length [b, b + L) that starts
\* inside the text and ends at or before its end gives its layer the span
\* that starts at the number of runes in text[0:b] and is as long as the
\* number of runes in text[b:b+L].
C2_SpansCountRunes ==
    status = "parsed" =>
        \A c \in ThemeColors :
            LET ts == Contributing(c)
            IN  /\ Len(SpansOf(c)) = Len(ts)
                /\ \A k \in 1..Len(ts) :
                      ts[k].b + ts[k].L <= Len(source) =>
                          SpansOf(c)[k] = [start |-> RuneStarts(source, 0, ts[k].b),
                                           length |-> RuneStarts(source, ts[k].b, ts[k].b + ts[k].L)]

\* C3 as stated: every span of every layer starts at 0 or later and is at
\* least one rune long.
C3_SpansArePositive ==
    \A c \in DOMAIN layers :
        \A k \in 1..Len(layers[c].spans) :
            layers[c].spans[k].start >= 0 /\ layers[c].spans[k].length >= 1

\* C4 as stated: Parse never panics, whatever bytes it is given.
C4_ParseNeverPanics == status # "panicked"

\* C5: after any sequence of Parse calls the layers, the offset table and
\* the file set are those of a fresh session with the same theme after one
\* Parse of the last text.
C5_ReparseIsFreshParse ==
    status = "parsed" =>
        LET fresh == ParseBody(New(Theme), source, f).s
        IN  layers = fresh.layers /\ runeOffsets = fresh.runeOffsets /\ fileSet = fresh.fileSet

\* A Parse has run on a session that held layers, among them one in a color
\* the new text has no use for, and has left other layers behind.
C5_Witness == status = "parsed" /\ dropped /\ layers # <<>>

\* C6 as stated: an add that starts outside the text leaves the layer map as
\* it was, so every layer of Layers() holds at least one span.
C6_NoEmptyLayer == \A c \in DOMAIN layers : layers[c].spans # <<>>

\* C7: when the parser returns an error, Parse returns that error after it
\* added the package keyword, every import spec, comment, declaration and
\* unresolved identifier of the recovered file: in each color the spans
\* start, in order, at the rune offsets of that color's nodes.
C7_ErrorStillAddsAll ==
    (status = "parsed" /\ f.err) =>
        /\ err
        /\ \A c \in ThemeColors :
              /\ Len(SpansOf(c)) = Len(Contributing(c))
              /\ \A k \in 1..Len(SpansOf(c)) :
                    SpansOf(c)[k].start = RuneStarts(source, 0, Contributing(c)[k].b)

\* A text with a comment and a broken declaration has been parsed: the
\* error is returned, and the comment and both keywords are in the layers.
C7_Witness ==
    /\ status = "parsed" /\ err
    /\ f.Comments # <<>> /\ f.Decls # <<>>
    /\ Len(SpansOf(Theme.Colors.Comment)) >= 1
    /\ Len(SpansOf(Theme.Colors.Keyword)) >= 2

\* C8 as stated: no layer is keyed by a color the theme leaves unset.
C8_NoLayerForUnsetColor == ZeroColor \notin DOMAIN layers

\* C9: a Pop restores the mappings its Push replaced (so n Pops after n
\* Pushes restore those before the first of the Pushes): c.commands holds
\* the same mappings in the same order, and the stack is as deep as it was.
C9_PopRestoresCommands ==
    (cstatus = "ok" /\ restored # <<>>) =>
        /\ commands = restored[1].commands
        /\ Len(cmdStack) = restored[1].depth

\* A Pop has restored mappings, below a Push that is still on the stack.
C9_Witness ==
    /\ cstatus = "ok" /\ restored # <<>>
    /\ restored[1].commands # <<>> /\ commands # <<>>
    /\ Len(cmdStack) >= 1

\* C10 as stated: after a Pop the input handler is again the one that was
\* in effect before the matching Push.
C10_PopRestoresInputHandler ==
    (cstatus = "ok" /\ restored # <<>> /\ restored[1].inputHandler # "none") =>
        inputHandler = restored[1].inputHandler

\* C11 as stated: every SetText of a (re)load runs inside the callback of
\* driver.Call, so the OnTextChanged handler never runs on the watcher
\* goroutine and never on two threads at once.
C11_ReloadOnlyThroughCall ==
    /\ "watch" \notin parsing
    /\ Cardinality(parsing) <= 1

\* C12: within one Parse the spans of each layer are in traversal order:
\* those of the package keyword, then of the import specs, then of the
\* comments, then of the declarations, then of the unresolved identifiers,
\* each phase in the parser's order, whatever colors the categories share.
\* The keyword layer of the test text lists package, func, var and return.
C12_SpansInTraversalOrder ==
    status = "parsed" =>
        /\ \A c \in ThemeColors :
              [k \in 1..Len(SpansOf(c)) |-> SpansOf(c)[k].start]
                  = Concat([n \in 1..5 |-> PhaseStarts(c, n)])
        /\ (source = TestText /\ KeywordColorApart) =>
              SpansOf(Theme.Colors.Keyword)
                  = <<[start |-> 1, length |-> 7], [start |-> 14, length |-> 4],
                      [start |-> 33, length |-> 3], [start |-> 47, length |-> 6]>>

\* A layer shared by several categories holds a span of a later phase that
\* starts before the span of an earlier phase it follows, and spans of at
\* least three phases.
C12_Witness ==
    /\ status = "parsed"
    /\ \E c \in DOMAIN layers :
          /\ \E k \in 1..(Len(layers[c].spans) - 1) :
                layers[c].spans[k].start > layers[c].spans[k + 1].start
          /\ Cardinality({n \in 1..5 : PhaseStarts(c, n) # <<>>}) >= 3

\* The key events of the settings.
KeyEvents == {CtrlS, CtrlO}

\* The command of the last of the calls that binds the event, or nil.
LastBound(made, event) ==
    LET at == {k \in 1..Len(made) : made[k].binding = event}
    IN  IF at = {} THEN NilCommand
        ELSE made[CHOOSE k \in at : \A j \in at : j <= k].command

\* C13: after any Pushes and Pops no two mappings of c.commands hold the
\* same key binding, bindings without a key (KeyUnknown) aside, and for
\* every key event Binding returns the command that the current bind level
\* bound to it last, nil if it bound none.
C13_OneMappingPerKey ==
    cstatus = "ok" =>
        /\ \A i, j \in 1..Len(commands) :
              (i # j /\ commands[i].binding.Key # "KeyUnknown")
                  => commands[i].binding # commands[j].binding
        /\ \A event \in KeyEvents :
              Binding(commands, event) = LastBound(bindLog[Len(bindLog)], event)

\* In the current bind level a command took a key from the command bound
\* to it before, and a Pop has brought this level back.
C13_Witness ==
    /\ cstatus = "ok" /\ restored # <<>>
    /\ \E event \in KeyEvents :
          LET log == bindLog[Len(bindLog)]
              at == {k \in 1..Len(log) : log[k].binding = event}
          IN  /\ \E k, j \in at : log[k].command # log[j].command
              /\ Binding(commands, event) # NilCommand

RECURSIVE Visit(_), VisitEach(_, _)
\* The traversal of execute: whether Exec returned executed = true for an
\* element visited, and whether the traversal ended on a consume.
Visit(el) ==
    IF el.exec.consume THEN [any |-> el.exec.executed, stop |-> TRUE]
    ELSE VisitEach(el.kids, el.exec.executed)

VisitEach(kids, any) ==
    IF kids = <<>> THEN [any |-> any, stop |-> FALSE]
    ELSE LET v == Visit(Head(kids))
         IN  IF v.stop THEN [any |-> any \/ v.any, stop |-> TRUE]
             ELSE VisitEach(Tail(kids), any \/ v.any)

\* C14 as stated: execute returns executed = true exactly when Exec returned
\* executed = true for an element it visited, so Execute warns only when
\* no visited element executed.
C14_ExecutedIffVisitedExecuted ==
    result # <<>> =>
        /\ result[1].executed = Visit(elem).any
        /\ result[1].warned = ~Visit(elem).any

====
